---- MODULE Spec2Model ----
(***************************************************************************)
(* A model of the `names` crate (src/src/lib.rs): the random name          *)
(* Generator, its builder, its (de)serialization and its next operation.   *)
(*                                                                         *)
(* Strings are sequences of characters; a character is a one-element name  *)
(* ("a", "B", "-", "7").  The two characters "e'" and "E'" stand for a     *)
(* lower-case / upper-case pair of letters whose UTF-8 encoding takes two  *)
(* bytes (such as U+00E9 / U+00C9); every other character takes one byte.  *)
(*                                                                         *)
(* usize values that take part in arithmetic (the digit count of a Name    *)
(* and the bounds computed from it) are 64-bit words, kept as four 16-bit  *)
(* limbs, least significant first, so that overflow, wrap-around and the   *)
(* `as u32` cast behave as on a 64-bit target.                             *)
(***************************************************************************)
EXTENDS Integers, Sequences, FiniteSets, TLC

VARIABLES
    overflow_checks,  \* whether the build panics on integer overflow (debug) or wraps (release)
    builder,          \* the GeneratorBuilder's fields, each an Option
    built,            \* what the last GeneratorBuilder::build returned
    gen,              \* the Generator, once one exists
    pc,               \* "ready", "rerolling" (inside next, under Length::Reroll) or "panicked"
    out,              \* what the last call of next returned
    drawn,            \* the adjective, noun and name of the attempt that ended the last call of next
    attempts,         \* the attempts of the call of next in progress
    doc,              \* the serialized configuration
    loaded,           \* the Generator deserialized from doc
    cased             \* the input and the result of Casing::apply

vars == <<overflow_checks, builder, built, gen, pc, out, drawn, attempts, doc, loaded, cased>>

(***************************************************************************)
(* Bounds of the model.                                                    *)
(***************************************************************************)
\* Numbered / ZeroPaddedNumbered digit counts 0..MaxDigits are enumerated
\* (besides the large digit counts of BigDigits).
MaxDigits == 1
\* Truncate(n) and Reroll(n) targets range over 0..MaxLen.
MaxLen == 4
\* Reroll attempts counted up to this cap.
MaxAttempts == 2
\* gen_range over a range of more values than this is sampled at its two ends only.
EnumSpan == 10

(***************************************************************************)
(* Characters and strings                                                  *)
(***************************************************************************)
\* char::len_utf8
Utf8Len(c) == IF c \in {"e'", "E'"} THEN 2 ELSE 1

\* char::to_uppercase, on the model's alphabet
ToUpperChar(c) ==
    CASE c = "a" -> "A"
      [] c = "b" -> "B"
      [] c = "x" -> "X"
      [] c = "e'" -> "E'"
      [] OTHER -> c

\* char::to_lowercase, on the model's alphabet
ToLowerChar(c) ==
    CASE c = "A" -> "a"
      [] c = "B" -> "b"
      [] c = "X" -> "x"
      [] c = "E'" -> "e'"
      [] OTHER -> c

\* str::to_uppercase
ToUppercase(s) == [i \in 1..Len(s) |-> ToUpperChar(s[i])]

\* str::to_lowercase
ToLowercase(s) == [i \in 1..Len(s) |-> ToLowerChar(s[i])]

\* str::len / String::len: the length in bytes (a character takes 1 or 2)
ByteLen(s) ==
    Cardinality({i \in 1..Len(s) : Utf8Len(s[i]) = 1})
        + 2 * Cardinality({i \in 1..Len(s) : Utf8Len(s[i]) = 2})

\* str::is_char_boundary
IsCharBoundary(s, n) ==
    \E k \in 0..Len(s) : ByteLen(SubSeq(s, 1, k)) = n

\* The prefix of s that is n bytes long (n a char boundary of s)
BytePrefix(s, n) ==
    SubSeq(s, 1, CHOOSE k \in 0..Len(s) : ByteLen(SubSeq(s, 1, k)) = n)

\* [&str]::join
RECURSIVE Join(_, _)
Join(words, sep) ==
    IF words = <<>> THEN <<>>
    ELSE IF Len(words) = 1 THEN words[1]
    ELSE words[1] \o sep \o Join(Tail(words), sep)

(***************************************************************************)
(* 64-bit words                                                            *)
(***************************************************************************)
LimbBase == 65536

\* The word of a small natural number
U64(n) == <<n % LimbBase, (n \div LimbBase) % LimbBase, 0, 0>>

U64Zero == <<0, 0, 0, 0>>

U64Max == <<LimbBase - 1, LimbBase - 1, LimbBase - 1, LimbBase - 1>>

\* 2^32 + k, for a small k
U64AboveU32(k) == <<k, 0, 1, 0>>

\* a <= b
U64Le(a, b) ==
    \/ a = b
    \/ \E i \in 1..4 : a[i] < b[i] /\ \A j \in (i + 1)..4 : a[j] = b[j]

\* Whether the word is small enough to be used as a model integer
IsSmall(a) == a[3] = 0 /\ a[4] = 0 /\ a[2] < 16384

ToInt(a) == a[1] + LimbBase * a[2]

\* a - 1 modulo 2^64, and whether the subtraction underflowed
WrappingSub1(a) ==
    LET i == IF \E j \in 1..4 : a[j] # 0
             THEN CHOOSE j \in 1..4 : a[j] # 0 /\ \A l \in 1..(j - 1) : a[l] = 0
             ELSE 5
    IN  [val |-> [j \in 1..4 |-> IF j < i THEN LimbBase - 1
                                 ELSE IF j = i THEN a[j] - 1 ELSE a[j]],
         ovf |-> i = 5]

\* a * 10 modulo 2^64, and whether the multiplication overflowed
WrappingMul10(a) ==
    LET p1 == a[1] * 10
        p2 == a[2] * 10 + (p1 \div LimbBase)
        p3 == a[3] * 10 + (p2 \div LimbBase)
        p4 == a[4] * 10 + (p3 \div LimbBase)
    IN  [val |-> <<p1 % LimbBase, p2 % LimbBase, p3 % LimbBase, p4 % LimbBase>>,
         ovf |-> p4 \div LimbBase > 0]

\* acc * 10^k modulo 2^64 for a model integer k, and whether a
\* multiplication overflowed (ovf: whether one already has)
RECURSIVE Pow10Small(_, _, _)
Pow10Small(k, acc, ovf) ==
    IF k = 0 THEN [val |-> acc, ovf |-> ovf]
    ELSE Pow10Small(k - 1, WrappingMul10(acc).val, ovf \/ WrappingMul10(acc).ovf)

\* x as u32: the low 32 bits
AsU32(a) == <<a[1], a[2], 0, 0>>

\* 10usize.pow(e) for a u32 e: 2^64 divides 10^k for every k >= 64, so the
\* wrapped power is 0 from there on (and has overflowed)
Pow10(e) ==
    IF e[2] = 0 /\ e[1] < 64 THEN Pow10Small(e[1], U64(1), FALSE)
    ELSE [val |-> U64Zero, ovf |-> TRUE]

\* a divided by 10: quotient and remainder
DivMod10(a) ==
    LET r4 == a[4] % 10
        c3 == r4 * LimbBase + a[3]
        c2 == (c3 % 10) * LimbBase + a[2]
        c1 == (c2 % 10) * LimbBase + a[1]
    IN  [quot |-> <<c1 \div 10, c2 \div 10, c3 \div 10, a[4] \div 10>>,
         rem |-> c1 % 10]

DigitChar(d) == <<"0", "1", "2", "3", "4", "5", "6", "7", "8", "9">>[d + 1]

DigitChars == {DigitChar(d) : d \in 0..9}

\* usize's Display: the decimal rendering, no sign, no leading zero
RECURSIVE ToDecimal(_)
ToDecimal(a) ==
    LET qr == DivMod10(a)
    IN  IF qr.quot = U64Zero THEN <<DigitChar(qr.rem)>>
        ELSE ToDecimal(qr.quot) \o <<DigitChar(qr.rem)>>

(***************************************************************************)
(* NumberSeperator, Name, Length, Casing                                   *)
(***************************************************************************)
Dash == [sep |-> "Dash"]

Underscore == [sep |-> "Underscore"]

Custom(s) == [sep |-> "Custom", s |-> s]

NoSeperator == [sep |-> "None"]

\* impl Default for NumberSeperator
DefaultSeperator == Dash

\* impl FromStr for NumberSeperator
from_str(s) ==
    CASE s = <<"-">> -> Dash
      [] s = <<"_">> -> Underscore
      [] s = <<>> -> NoSeperator
      [] OTHER -> Custom(s)

\* impl Display for NumberSeperator (to_string)
to_string(sep) ==
    CASE sep.sep = "Dash" -> <<"-">>
      [] sep.sep = "Underscore" -> <<"_">>
      [] sep.sep = "Custom" -> sep.s
      [] sep.sep = "None" -> <<>>

Plain == [name |-> "Plain"]

Numbered(x, sep) == [name |-> "Numbered", digits |-> x, sep |-> sep]

ZeroPaddedNumbered(x, sep) == [name |-> "ZeroPaddedNumbered", digits |-> x, sep |-> sep]

\* impl Default for Name
DefaultName == Plain

Truncate(n) == [length |-> "Truncate", n |-> n]

Reroll(n) == [length |-> "Reroll", n |-> n]

NoLength == [length |-> "None"]

\* impl Default for Length
DefaultLength == NoLength

SeperatorCasings == {"Lowercase", "Uppercase", "Capitalize", "CapitalizeFirst", "CapitalizeLast"}

FixedCasings == {"SnakeCase", "ScreamingSnakeCase", "CamelCase", "PascalCase", "KebabCase", "ScreamingKebabCase"}

CasingWith(c, sep) == [casing |-> c, sep |-> sep]

CasingOf(c) == [casing |-> c]

\* impl Default for Casing
DefaultCasing == CasingWith("Lowercase", Dash)

\* Casing::seperator
seperator(casing) ==
    CASE casing.casing \in SeperatorCasings -> to_string(casing.sep)
      [] casing.casing \in {"SnakeCase", "ScreamingSnakeCase"} -> <<"_">>
      [] casing.casing \in {"CamelCase", "PascalCase"} -> <<>>
      [] casing.casing \in {"KebabCase", "ScreamingKebabCase"} -> <<"-">>

\* The closure used by the capitalizing variants: the first character
\* upper-cased, the rest lower-cased; the empty word stays empty
CapitalizeWord(word) ==
    IF word = <<>> THEN <<>>
    ELSE <<ToUpperChar(Head(word))>> \o ToLowercase(Tail(word))

\* Casing::apply
RECURSIVE apply(_, _)
apply(casing, words) ==
    CASE casing.casing = "Lowercase" ->
            ToLowercase(Join(words, to_string(casing.sep)))
      [] casing.casing = "Uppercase" ->
            ToUppercase(Join(words, to_string(casing.sep)))
      [] casing.casing = "Capitalize" ->
            Join([i \in 1..Len(words) |-> CapitalizeWord(words[i])],
                 to_string(casing.sep))
      [] casing.casing = "CapitalizeFirst" ->
            Join([i \in 1..Len(words) |->
                     IF i = 1 THEN CapitalizeWord(words[i])
                     ELSE ToLowercase(words[i])],
                 to_string(casing.sep))
      [] casing.casing = "CapitalizeLast" ->
            Join([i \in 1..Len(words) |->
                     IF i = Len(words) THEN CapitalizeWord(words[i])
                     ELSE ToLowercase(words[i])],
                 to_string(casing.sep))
      [] casing.casing = "SnakeCase" -> ToLowercase(Join(words, <<"_">>))
      [] casing.casing = "ScreamingSnakeCase" -> ToUppercase(Join(words, <<"_">>))
      [] casing.casing = "CamelCase" ->
            Join([i \in 1..Len(words) |->
                     IF i = 1 THEN ToLowercase(words[i])
                     ELSE CapitalizeWord(words[i])],
                 <<>>)
      [] casing.casing = "PascalCase" ->
            apply(CasingWith("Capitalize", NoSeperator), words)
      [] casing.casing = "KebabCase" -> ToLowercase(Join(words, <<"-">>))
      [] casing.casing = "ScreamingKebabCase" -> ToUppercase(Join(words, <<"-">>))

(***************************************************************************)
(* The numeric suffix                                                      *)
(***************************************************************************)
Panic(why) == [tag |-> "Panic", why |-> why]

Value(v) == [tag |-> "Value", val |-> v]

\* Rng::gen_range(low..=high) for low <= high: every value of a range of at
\* most EnumSpan values, the two ends of a wider one
gen_range(lo, hi) ==
    IF IsSmall(hi) /\ ToInt(hi) - ToInt(lo) < EnumSpan
    THEN {U64(k) : k \in ToInt(lo)..ToInt(hi)}
    ELSE {lo, hi}

\* generate_number_with_x_digits: the outcomes of one call.  With overflow
\* checks (a debug build) an overflowing subtraction or power panics; without
\* them (a release build) it wraps.  gen_range panics on an empty range.
generate_number_with_x_digits(x, checks) ==
    LET xm1 == WrappingSub1(x)
        lower_bound == Pow10(AsU32(xm1.val))
        pow_upper == Pow10(AsU32(x))
        upper_bound == WrappingSub1(pow_upper.val)
    IN  IF checks /\ (xm1.ovf \/ lower_bound.ovf \/ pow_upper.ovf \/ upper_bound.ovf)
        THEN {Panic("arithmetic overflow")}
        ELSE IF ~U64Le(lower_bound.val, upper_bound.val)
        THEN {Panic("cannot sample empty range")}
        ELSE {Value(k) : k \in gen_range(lower_bound.val, upper_bound.val)}

\* format!("{:0>width$}", number, width = x) on the decimal rendering
PadZeroLeft(s, width) ==
    IF Len(s) >= width THEN s
    ELSE [i \in 1..(width - Len(s)) |-> "0"] \o s

\* generate_padded_number_with_x_digits: the outcomes of one call, the number
\* already rendered
generate_padded_number_with_x_digits(x, checks) ==
    {IF o.tag = "Panic" THEN o ELSE Value(PadZeroLeft(ToDecimal(o.val), ToInt(x)))
        : o \in generate_number_with_x_digits(x, checks)}

\* The suffix the naming strategy appends (the second half of the format!
\* of next), or the panic of the number generation
Suffixes(naming, checks) ==
    CASE naming.name = "Plain" -> {Value(<<>>)}
      [] naming.name = "Numbered" ->
            {IF o.tag = "Panic" THEN o
             ELSE Value(to_string(naming.sep) \o ToDecimal(o.val))
                : o \in generate_number_with_x_digits(naming.digits, checks)}
      [] naming.name = "ZeroPaddedNumbered" ->
            {IF o.tag = "Panic" THEN o
             ELSE Value(to_string(naming.sep) \o o.val)
                : o \in generate_padded_number_with_x_digits(naming.digits, checks)}

Seperators == {Dash, Underscore, NoSeperator, Custom(<<"X">>), Custom(<<"-">>)}

\* Digit counts: 0..MaxDigits, one whose upper bound 10^20 overflows a
\* 64-bit usize, one whose two powers both wrap to 0
Digits == {U64(d) : d \in 0..MaxDigits} \cup {U64(20), U64(65)}

\* Naming strategies; 2^32 + 1 digits only under Numbered (a zero-padded
\* suffix of that width is beyond the strings of the model)
NamesWith(seps) ==
    {Plain}
        \cup {Numbered(x, s) : x \in Digits \cup {U64AboveU32(1)}, s \in seps}
        \cup {ZeroPaddedNumbered(x, s) : x \in Digits, s \in seps}

\* Suffixes, evaluated once for every naming strategy of the model
SuffixTable == [n \in NamesWith(Seperators), c \in BOOLEAN |-> Suffixes(n, c)]

(***************************************************************************)
(* Generator, GeneratorBuilder, Default, Serialize / Deserialize           *)
(***************************************************************************)
NoValue == [some |-> FALSE]

Some(v) == [some |-> TRUE, v |-> v]

\* ADJECTIVES and NOUNS, the built-in word lists (generated at build time);
\* fn adjectives() and fn nouns() copy them
ADJECTIVES == <<<<"a", "b">>, <<"b", "a", "b">>>>

NOUNS == <<<<"b", "a">>, <<"a">>>>

adjectives == ADJECTIVES

nouns == NOUNS

\* struct Generator (the random source is the model's nondeterminism)
Generator(adjs, ns, naming, casing, length) ==
    [adjectives |-> adjs, nouns |-> ns, naming |-> naming, casing |-> casing,
     length |-> length]

\* GeneratorBuilder::default(): no field set
EmptyBuilder ==
    [adjectives |-> NoValue, nouns |-> NoValue, naming |-> NoValue,
     casing |-> NoValue, length |-> NoValue, rng |-> NoValue]

Ok(v) == [tag |-> "Ok", v |-> v]

Err(e) == [tag |-> "Err", err |-> e]

\* validate with the two checks in the other order
validate_nouns_first(b) ==
    IF b.nouns.some /\ b.nouns.v = <<>> THEN Err("NounsEmpty")
    ELSE IF b.adjectives.some /\ b.adjectives.v = <<>> THEN Err("AdjectivesEmpty")
    ELSE Ok("unit")

\* GeneratorBuilder::validate
validate(b) ==
    IF b.adjectives.some /\ b.adjectives.v = <<>> THEN Err("AdjectivesEmpty")
    ELSE IF b.nouns.some /\ b.nouns.v = <<>> THEN Err("NounsEmpty")
    ELSE Ok("unit")

OrDefault(field, default) == IF field.some THEN field.v ELSE default

\* GeneratorBuilder::build, as #[derive(Builder)] generates it: validate
\* first, then every field from its setter or its default; rng has no
\* default, and unset it is an UninitializedFieldError, turned into
\* Error::UninitializedField by From<UninitializedFieldError>
build(b) ==
    IF validate(b).tag = "Err" THEN validate(b)
    ELSE IF ~b.rng.some THEN Err("UninitializedField(rng)")
    ELSE Ok(Generator(OrDefault(b.adjectives, adjectives),
                      OrDefault(b.nouns, nouns),
                      OrDefault(b.naming, DefaultName),
                      OrDefault(b.casing, DefaultCasing),
                      OrDefault(b.length, DefaultLength)))

\* impl Default for Generator<ThreadRng> (and the other random sources)
default == Generator(adjectives, nouns, Plain, CasingWith("Lowercase", Dash), NoLength)

\* impl Serialize for NumberSeperator: the separator as a string
serialize_seperator(sep) ==
    IF sep.sep = "Custom" THEN sep.s ELSE to_string(sep)

\* impl Deserialize for NumberSeperator: a string, through FromStr
deserialize_seperator(s) == from_str(s)

\* #[derive(Serialize)] for Name: "Plain", {"Numbered": [x, sep]}, ...
serialize_name(n) ==
    IF n.name = "Plain" THEN [tag |-> "Plain"]
    ELSE [tag |-> n.name, num |-> n.digits, str |-> serialize_seperator(n.sep)]

\* #[derive(Deserialize)] for Name
deserialize_name(j) ==
    IF j.tag = "Plain" THEN Plain
    ELSE [name |-> j.tag, digits |-> j.num, sep |-> deserialize_seperator(j.str)]

\* #[derive(Serialize)] for Casing: {"Lowercase": sep}, "SnakeCase", ...
serialize_casing(c) ==
    IF c.casing \in SeperatorCasings
    THEN [tag |-> c.casing, str |-> serialize_seperator(c.sep)]
    ELSE [tag |-> c.casing]

\* #[derive(Deserialize)] for Casing
deserialize_casing(j) ==
    IF j.tag \in SeperatorCasings
    THEN CasingWith(j.tag, deserialize_seperator(j.str))
    ELSE CasingOf(j.tag)

\* #[derive(Serialize)] for Length: {"Truncate": n}, {"Reroll": n}, "None"
serialize_length(l) ==
    IF l.length = "None" THEN [tag |-> "None"] ELSE [tag |-> l.length, num |-> l.n]

\* #[derive(Deserialize)] for Length
deserialize_length(j) ==
    IF j.tag = "None" THEN NoLength ELSE [length |-> j.tag, n |-> j.num]

\* #[derive(Serialize)] for Generator: every field but rng (#[serde(skip)])
serialize(g) ==
    [adjectives |-> Some(g.adjectives),
     nouns |-> Some(g.nouns),
     naming |-> Some(serialize_name(g.naming)),
     casing |-> Some(serialize_casing(g.casing)),
     length |-> Some(serialize_length(g.length))]

\* #[derive(Deserialize)] for GeneratorJson: a missing key takes its default
GeneratorJson(d) ==
    [adjectives |-> OrDefault(d.adjectives, adjectives),
     nouns |-> OrDefault(d.nouns, nouns),
     naming |-> IF d.naming.some THEN deserialize_name(d.naming.v) ELSE DefaultName,
     casing |-> IF d.casing.some THEN deserialize_casing(d.casing.v) ELSE DefaultCasing,
     length |-> IF d.length.some THEN deserialize_length(d.length.v) ELSE DefaultLength]

\* GeneratorJson::thread_rng (os_rng, std_rng, small_rng alike)
thread_rng(j) == Generator(j.adjectives, j.nouns, j.naming, j.casing, j.length)

\* impl Deserialize for Generator<ThreadRng> (and the other random sources)
deserialize(d) == thread_rng(GeneratorJson(d))

(***************************************************************************)
(* Iterator for Generator: next                                            *)
(***************************************************************************)
\* One pass through the first half of next: choose an adjective and a noun
\* (None from an empty list), apply the casing, append the suffix
Attempts(g, checks) ==
    IF g.adjectives = <<>> \/ g.nouns = <<>> THEN {[tag |-> "None"]}
    ELSE {IF sfx.tag = "Panic"
          THEN [tag |-> "Panic", why |-> sfx.why]
          ELSE [tag |-> "Generated",
                adj |-> g.adjectives[i],
                noun |-> g.nouns[j],
                combined |-> apply(g.casing, <<g.adjectives[i], g.nouns[j]>>),
                generated |-> apply(g.casing, <<g.adjectives[i], g.nouns[j]>>) \o sfx.val]
            : i \in 1..Len(g.adjectives), j \in 1..Len(g.nouns),
              sfx \in SuffixTable[g.naming, checks]}

\* String::truncate(new_len): nothing beyond the length, an assertion that
\* new_len is a char boundary otherwise
truncate(s, new_len) ==
    IF new_len > ByteLen(s) THEN Value(s)
    ELSE IF ~IsCharBoundary(s, new_len)
    THEN Panic("assertion failed: self.is_char_boundary(new_len)")
    ELSE Value(BytePrefix(s, new_len))

NotCalled == [tag |-> "NotCalled"]

Pending == [tag |-> "Pending"]

NoneItem == [tag |-> "None"]

SomeItem(s) == [tag |-> "Some", val |-> s]

\* Finish with the test of the loop of Length::Reroll inverted
Finish_reroll_inverted(length, a) ==
    CASE a.tag = "None" -> [tag |-> "None"]
      [] a.tag = "Panic" -> a
      [] a.tag = "Generated" /\ length.length = "None" ->
            [tag |-> "Some", val |-> a.generated]
      [] a.tag = "Generated" /\ length.length = "Truncate" ->
            LET r == truncate(a.generated, length.n)
            IN  IF r.tag = "Panic" THEN r ELSE [tag |-> "Some", val |-> r.val]
      [] a.tag = "Generated" /\ length.length = "Reroll" ->
            IF ByteLen(a.generated) = length.n THEN [tag |-> "Pending"]
            ELSE [tag |-> "Some", val |-> a.generated]

\* The second half of next (the match on self.length) for one attempt: the
\* item returned, a panic, or Pending when Length::Reroll goes round again
Finish(length, a) ==
    CASE a.tag = "None" -> NoneItem
      [] a.tag = "Panic" -> a
      [] a.tag = "Generated" /\ length.length = "None" -> SomeItem(a.generated)
      [] a.tag = "Generated" /\ length.length = "Truncate" ->
            LET r == truncate(a.generated, length.n)
            IN  IF r.tag = "Panic" THEN r ELSE SomeItem(r.val)
      [] a.tag = "Generated" /\ length.length = "Reroll" ->
            IF ByteLen(a.generated) # length.n THEN Pending
            ELSE SomeItem(a.generated)

PcAfter(o) ==
    CASE o.tag = "Pending" -> "rerolling"
      [] o.tag = "Panic" -> "panicked"
      [] OTHER -> "ready"

Min(a, b) == IF a < b THEN a ELSE b

NoAttempt == [tag |-> "NoAttempt"]

\* What is kept of an attempt: the one that ends the call; the string of an
\* attempt that Length::Reroll rejects is dropped
Kept(length, a) == IF Finish(length, a).tag = "Pending" THEN NoAttempt ELSE a

\* A call of next on the Generator, up to its return, its panic, or its
\* entry into the loop of Length::Reroll
NextCall ==
    /\ pc = "ready"
    /\ gen.some
    /\ \E a \in Attempts(gen.v, overflow_checks) :
          /\ drawn' = Kept(gen.v.length, a)
          /\ out' = Finish(gen.v.length, a)
          /\ pc' = PcAfter(Finish(gen.v.length, a))
    /\ attempts' = 1
    /\ UNCHANGED <<overflow_checks, builder, built, gen, doc, loaded, cased>>

\* Inside `while generated.len() != x`: the recursive self.next() makes
\* another attempt, and this one has the length asked for: next returns it
RerollHit ==
    /\ pc = "rerolling"
    /\ pc' = "ready"
    /\ \E a \in Attempts(gen.v, overflow_checks) :
          /\ Finish(gen.v.length, a).tag = "Some"
          /\ drawn' = a
          /\ out' = Finish(gen.v.length, a)
    /\ attempts' = Min(attempts + 1, MaxAttempts)
    /\ UNCHANGED <<overflow_checks, builder, built, gen, doc, loaded, cased>>

\* Inside `while generated.len() != x`: the recursive self.next() makes
\* another attempt, and this one does not end the call with a name: the
\* loop goes round again (or the attempt fails, and the call with it)
RerollAgain ==
    /\ pc = "rerolling"
    /\ \E a \in Attempts(gen.v, overflow_checks) :
          /\ Finish(gen.v.length, a).tag # "Some"
          /\ drawn' = Kept(gen.v.length, a)
          /\ out' = Finish(gen.v.length, a)
          /\ pc' = PcAfter(Finish(gen.v.length, a))
    /\ attempts' = Min(attempts + 1, MaxAttempts)
    /\ UNCHANGED <<overflow_checks, builder, built, gen, doc, loaded, cased>>

(***************************************************************************)
(* The inputs the model enumerates                                         *)
(***************************************************************************)
AdjectiveLists == {<<>>, <<<<"a", "B">>>>, <<<<"e'">>>>, <<<<"a", "B">>, <<"e'">>>>}

NounLists == {<<>>, <<<<"b">>>>, <<<<"b">>, <<"E'", "a">>>>}

Lengths == {NoLength} \cup {Truncate(n) : n \in 0..MaxLen} \cup {Reroll(n) : n \in 0..MaxLen}

Casings ==
    {CasingWith(c, s) : c \in SeperatorCasings, s \in Seperators}
        \cup {CasingOf(c) : c \in FixedCasings}

\* The configurations next is run on
Generators ==
    {Generator(a, n, nm, c, l) :
        a \in AdjectiveLists, n \in NounLists,
        nm \in NamesWith({Dash, NoSeperator}),
        c \in {DefaultCasing, CasingOf("CamelCase"), CasingWith("Uppercase", Custom(<<"X">>))},
        l \in Lengths}

\* The configurations that are serialized and read back
SerdeGenerators ==
    {Generator(a, n, nm, c, l) :
        a \in AdjectiveLists, n \in NounLists, nm \in NamesWith(Seperators),
        c \in Casings, l \in {NoLength, Truncate(MaxLen), Reroll(0)}}

\* The values the builder's setters and the structured configurations take
SomeNames == {Plain, Numbered(U64(1), NoSeperator)}

SomeCasings == {DefaultCasing, CasingOf("PascalCase")}

SomeLengths == {Truncate(2), Reroll(MaxLen)}

\* The structured configurations handed to Deserialize: every key optional
Docs ==
    [adjectives : {NoValue} \cup {Some(l) : l \in AdjectiveLists},
     nouns : {NoValue} \cup {Some(l) : l \in NounLists},
     naming : {NoValue} \cup {Some(serialize_name(n)) : n \in SomeNames},
     casing : {NoValue} \cup {Some(serialize_casing(c)) : c \in SomeCasings},
     length : {NoValue} \cup {Some(serialize_length(l)) : l \in SomeLengths}]

\* The words Casing::apply is applied to
CaseWords == {<<>>, <<"a", "B">>, <<"B", "a">>, <<"e'", "X">>}

(***************************************************************************)
(* The builder's setters, build, and the other constructors                *)
(***************************************************************************)
NotBuilt == [tag |-> "NotBuilt"]

Building == ~gen.some /\ pc = "ready"

SetField(f, v) ==
    /\ Building
    /\ builder' = [builder EXCEPT ![f] = Some(v)]
    /\ UNCHANGED <<overflow_checks, built, gen, pc, out, drawn, attempts, doc, loaded, cased>>

\* GeneratorBuilder::adjectives
SetAdjectives == \E v \in AdjectiveLists : SetField("adjectives", v)

\* GeneratorBuilder::nouns
SetNouns == \E v \in NounLists : SetField("nouns", v)

\* GeneratorBuilder::naming
SetNaming == \E v \in SomeNames : SetField("naming", v)

\* GeneratorBuilder::casing
SetCasing == \E v \in SomeCasings : SetField("casing", v)

\* GeneratorBuilder::length
SetLength == \E v \in SomeLengths : SetField("length", v)

\* GeneratorBuilder::rng
SetRng == SetField("rng", "rng")

\* GeneratorBuilder::build: its result, and the Generator when it is Ok
Build ==
    /\ Building
    /\ built' = IF build(builder).tag = "Ok" THEN Ok("Generator") ELSE build(builder)
    /\ gen' = IF build(builder).tag = "Ok" THEN Some(build(builder).v) ELSE gen
    /\ UNCHANGED <<overflow_checks, builder, pc, out, drawn, attempts, doc, loaded, cased>>

\* Generator::default(), by a program that uses no builder
NewDefault ==
    /\ Building
    /\ builder = EmptyBuilder
    /\ built = NotBuilt
    /\ gen' = Some(default)
    /\ UNCHANGED <<overflow_checks, builder, built, pc, out, drawn, attempts, doc, loaded, cased>>

\* Deserializing a Generator from a structured configuration, by a program
\* that uses no builder
Deserialize ==
    /\ Building
    /\ builder = EmptyBuilder
    /\ built = NotBuilt
    /\ \E d \in Docs :
          /\ doc' = Some(d)
          /\ gen' = Some(deserialize(d))
    /\ UNCHANGED <<overflow_checks, builder, built, pc, out, drawn, attempts, loaded, cased>>

\* Serializing the Generator
Serialize ==
    /\ gen.some
    /\ ~doc.some
    /\ doc' = Some(serialize(gen.v))
    /\ UNCHANGED <<overflow_checks, builder, built, gen, pc, out, drawn, attempts, loaded, cased>>

\* Deserializing what Serialize wrote
DeserializeBack ==
    /\ doc.some
    /\ ~loaded.some
    /\ loaded' = Some(deserialize(doc.v))
    /\ UNCHANGED <<overflow_checks, builder, built, gen, pc, out, drawn, attempts, doc, cased>>

\* Casing::apply on the chosen words
ApplyCasing ==
    /\ cased.some
    /\ ~cased.v.result.some
    /\ cased' = Some([cased.v EXCEPT !.result = Some(apply(cased.v.casing, cased.v.words))])
    /\ UNCHANGED <<overflow_checks, builder, built, gen, pc, out, drawn, attempts, doc, loaded>>

(***************************************************************************)
(* Specifications                                                          *)
(***************************************************************************)
Idle ==
    /\ pc = "ready"
    /\ out = NotCalled
    /\ drawn = NoAttempt
    /\ attempts = 0
    /\ builder = EmptyBuilder
    /\ built = NotBuilt

\* The life of a Generator: a fresh builder, no Generator yet
Init ==
    /\ Idle
    /\ overflow_checks \in BOOLEAN
    /\ gen = NoValue
    /\ doc = NoValue
    /\ loaded = NoValue
    /\ cased = NoValue

Next ==
    \/ SetAdjectives
    \/ SetNouns
    \/ SetNaming
    \/ SetCasing
    \/ SetLength
    \/ SetRng
    \/ Build
    \/ NewDefault
    \/ Deserialize
    \/ NextCall
    \/ RerollHit
    \/ RerollAgain

Spec == Init /\ [][Next]_vars

\* next on every configuration a Generator can hold
InitNext ==
    /\ Idle
    /\ overflow_checks \in BOOLEAN
    /\ gen \in {Some(g) : g \in Generators}
    /\ doc = NoValue
    /\ loaded = NoValue
    /\ cased = NoValue

NextNext == NextCall \/ RerollHit \/ RerollAgain

SpecNext == InitNext /\ [][NextNext]_vars

\* next under Length::Reroll, the random source being fair: an attempt that
\* can end the loop is not put off forever
InitReroll == InitNext /\ gen.v.length.length = "Reroll"

SpecReroll == InitReroll /\ [][NextNext]_vars /\ WF_vars(RerollHit)

\* Serialize, then deserialize
InitSerde ==
    /\ Idle
    /\ overflow_checks = FALSE
    /\ gen \in {Some(g) : g \in SerdeGenerators}
    /\ doc = NoValue
    /\ loaded = NoValue
    /\ cased = NoValue

NextSerde == Serialize \/ DeserializeBack

SpecSerde == InitSerde /\ [][NextSerde]_vars

\* Casing::apply as a function of its inputs
InitCasing ==
    /\ Idle
    /\ overflow_checks = FALSE
    /\ gen = NoValue
    /\ doc = NoValue
    /\ loaded = NoValue
    /\ cased \in {Some([casing |-> c, words |-> <<w1, w2>>, result |-> NoValue]) :
                    c \in Casings, w1 \in CaseWords, w2 \in CaseWords}

NextCasing == ApplyCasing

SpecCasing == InitCasing /\ [][NextCasing]_vars

(***************************************************************************)
(* Properties                                                              *)
(***************************************************************************)
\* C1: build returns Err(AdjectivesEmpty) whenever the adjectives supplied
\* are empty, and Err(NounsEmpty) whenever the nouns supplied are empty and
\* the adjectives are not, whatever the other fields are; no Generator is
\* constructed in either case.
C1_BuildRejectsEmptyLists ==
    [][Build =>
        /\ (builder.adjectives = Some(<<>>)
              => built' = Err("AdjectivesEmpty") /\ gen' = NoValue)
        /\ (builder.nouns = Some(<<>>) /\ builder.adjectives # Some(<<>>)
              => built' = Err("NounsEmpty") /\ gen' = NoValue)]_vars

\* build has rejected empty nouns, the adjectives being set and not empty,
\* a naming strategy set and the random source not
C1_Witness ==
    /\ built = Err("NounsEmpty")
    /\ builder.nouns = Some(<<>>)
    /\ builder.adjectives.some /\ builder.adjectives.v # <<>>
    /\ builder.naming.some
    /\ ~builder.rng.some
    /\ ~gen.some

\* C2: build returns Ok(Generator) whenever the adjectives and the nouns
\* (supplied, or left to the built-in lists) are both non-empty, whichever
\* of naming, casing, length and the random source were set.
C2_BuildSucceedsOnNonEmptyLists ==
    [][Build =>
        (/\ OrDefault(builder.adjectives, adjectives) # <<>>
         /\ OrDefault(builder.nouns, nouns) # <<>>
            => built'.tag = "Ok" /\ gen'.some)]_vars

\* C3: once a Generator exists, however it was created and after any calls
\* of next, its adjectives and its nouns are both non-empty.
C3_WordListsNeverEmpty ==
    gen.some => gen.v.adjectives # <<>> /\ gen.v.nouns # <<>>

NonEmptyLists == gen.some /\ gen.v.adjectives # <<>> /\ gen.v.nouns # <<>>

\* C4: on a Generator whose word lists are both non-empty, whatever its
\* naming, casing and length, a call of next returns Some(name): it neither
\* returns None nor panics.
C4_NextAlwaysReturnsSome ==
    NonEmptyLists /\ out.tag \notin {"NotCalled", "Pending"}
        => out.tag = "Some" /\ pc # "panicked"

\* s is sep followed by exactly `digits` decimal digits
IsDigitSuffix(s, sep, digits) ==
    /\ IsSmall(digits)
    /\ Len(s) = Len(sep) + ToInt(digits)
    /\ SubSeq(s, 1, Len(sep)) = sep
    /\ \A i \in (Len(sep) + 1)..Len(s) : s[i] \in DigitChars

\* The name returned is the cased adjective-noun string of the attempt
\* followed by sep and exactly `digits` decimal digits, the first of them
\* not 0 when leading is FALSE
IsNumberedName(name, sep, digits, leading) ==
    LET c == Len(drawn.combined)
    IN  /\ Len(name) >= c
        /\ SubSeq(name, 1, c) = drawn.combined
        /\ IsDigitSuffix(SubSeq(name, c + 1, Len(name)), sep, digits)
        /\ (leading \/ name[c + Len(sep) + 1] # "0")

ReturnedUnder(kind) ==
    /\ gen.some
    /\ gen.v.naming.name = kind
    /\ gen.v.naming.digits # U64Zero
    /\ gen.v.length = NoLength
    /\ out.tag = "Some"

\* C5: under Numbered(digits, sep), digits >= 1, with no length policy, each
\* name returned is the cased adjective-noun string, then sep, then the
\* decimal rendering of a k with 10^(digits-1) <= k <= 10^digits - 1:
\* exactly `digits` digits, the first in 1..9.
C5_NumberedSuffixHasDigitsDigits ==
    ReturnedUnder("Numbered")
        => IsNumberedName(out.val, to_string(gen.v.naming.sep), gen.v.naming.digits, FALSE)

\* C6: under ZeroPaddedNumbered(digits, sep), digits >= 1, with no length
\* policy, each name returned ends with sep and exactly `digits` decimal
\* digits, and the number they encode lies in [10^(digits-1), 10^digits - 1]
\* as under Numbered (so that its first digit is not 0).
C6_ZeroPaddedSuffixSameRange ==
    ReturnedUnder("ZeroPaddedNumbered")
        => IsNumberedName(out.val, to_string(gen.v.naming.sep), gen.v.naming.digits, FALSE)

\* a is a prefix of b
IsPrefix(a, b) == Len(a) <= Len(b) /\ SubSeq(b, 1, Len(a)) = a

\* C7: under Truncate(n), for the string s the casing and naming steps
\* produced, next returns s unchanged when the length of s is below n, and
\* otherwise the prefix of s of length exactly n (lengths in bytes, as
\* String::len counts them).
C7_TruncateReturnsPrefix ==
    gen.some /\ gen.v.length.length = "Truncate" /\ drawn.tag = "Generated"
        => /\ out.tag = "Some"
           /\ IF ByteLen(drawn.generated) < gen.v.length.n
              THEN out.val = drawn.generated
              ELSE ByteLen(out.val) = gen.v.length.n /\ IsPrefix(out.val, drawn.generated)

\* Some combination of the configuration has the length Reroll asks for
Achievable ==
    \E a \in Attempts(gen.v, overflow_checks) :
        a.tag = "Generated" /\ ByteLen(a.generated) = gen.v.length.n

C9_SerdeRoundTrip ==
    loaded.some => loaded.v = gen.v

\* The fixed separator of a casing without a parameter, its own otherwise
TableSeperator(casing) ==
    CASE casing.casing \in SeperatorCasings -> to_string(casing.sep)
      [] casing.casing \in {"SnakeCase", "ScreamingSnakeCase"} -> <<"_">>
      [] casing.casing \in {"KebabCase", "ScreamingKebabCase"} -> <<"-">>
      [] OTHER -> <<>>

\* The rule of the casing table for two words: the case change on each word,
\* the separator as it is between them
TableRule(casing, w1, w2) ==
    LET sep == TableSeperator(casing)
        c == casing.casing
    IN  CASE c \in {"Lowercase", "SnakeCase", "KebabCase"} ->
                ToLowercase(w1) \o sep \o ToLowercase(w2)
          [] c \in {"Uppercase", "ScreamingSnakeCase", "ScreamingKebabCase"} ->
                ToUppercase(w1) \o sep \o ToUppercase(w2)
          [] c \in {"Capitalize", "PascalCase"} ->
                CapitalizeWord(w1) \o sep \o CapitalizeWord(w2)
          [] c = "CapitalizeFirst" -> CapitalizeWord(w1) \o sep \o ToLowercase(w2)
          [] c \in {"CapitalizeLast", "CamelCase"} ->
                ToLowercase(w1) \o sep \o CapitalizeWord(w2)

\* C10: Casing::apply(casing, [w1, w2]) is the rule of the table for each of
\* the 11 variants, every pair of words and every separator: the case change
\* on the two words only, the separator literally between them.
C10_ApplyFollowsTable ==
    cased.some /\ cased.v.result.some
        => cased.v.result.v = TableRule(cased.v.casing, cased.v.words[1], cased.v.words[2])

\* The nearest char boundary of s at or below byte n
FloorCharBoundary(s, n) ==
    CHOOSE b \in 0..n :
        IsCharBoundary(s, b) /\ \A c \in (b + 1)..n : ~IsCharBoundary(s, c)

\* C11: under Truncate(n), when byte n falls inside a multi-byte character
\* of the generated string s, next still returns a value, and the value is
\* the prefix of s that ends at the nearest char boundary at or below n.
C11_TruncateCutsAtCharBoundary ==
    (/\ gen.some
     /\ gen.v.length.length = "Truncate"
     /\ drawn.tag = "Generated"
     /\ gen.v.length.n <= ByteLen(drawn.generated)
     /\ ~IsCharBoundary(drawn.generated, gen.v.length.n))
        => /\ out.tag = "Some"
           /\ out.val = BytePrefix(drawn.generated,
                                   FloorCharBoundary(drawn.generated, gen.v.length.n))

\* C12: with Numbered(0, sep) or ZeroPaddedNumbered(0, sep) no call of next
\* returns a name: the configuration fails before a suffix is computed
\* from digits = 0.
C12_ZeroDigitsFailsFast ==
    (/\ gen.some
     /\ gen.v.naming.name \in {"Numbered", "ZeroPaddedNumbered"}
     /\ gen.v.naming.digits = U64Zero)
        => out.tag # "Some"

\* C13: under Reroll(n) on non-empty word lists, no combination having
\* length n, a call of next that was made stays in its loop: it returns
\* neither a name nor None and does not end otherwise, every attempt being
\* rejected.
C13_UnachievableRerollLoopsForever ==
    (/\ NonEmptyLists
     /\ gen.v.length.length = "Reroll"
     /\ ~Achievable
     /\ out.tag # "NotCalled")
        => pc = "rerolling" /\ out.tag = "Pending"

====
